---- MODULE Spec2Model ----
(***************************************************************************)
(* Token lifecycle of the OAuth2 token broker: services/oauth_manager.py   *)
(* (OAuthManager), services/encryption.py (EncryptionService) and the      *)
(* oauth_tokens table of services/database.py (OAuthToken).                *)
(*                                                                         *)
(* Python strings are TLA+ strings.  Optional values are sequences of      *)
(* length at most one: <<>> is None, <<v>> is the value v.  JSON text is   *)
(* the sequence of its lexical tokens (punctuation and quoted string       *)
(* literals), so that json.dumps and json.loads are real conversions.      *)
(***************************************************************************)
EXTENDS Integers, Sequences, FiniteSets, TLC

(***************************************************************************)
(* Bounds of the model.                                                    *)
(***************************************************************************)
MaxTicks == 2
MaxIssued == 3
MaxCallbacks == 1
MaxPlainLen == 3
MaxCalls == 3

(***************************************************************************)
(* Inputs.                                                                 *)
(***************************************************************************)
UserIds == {"a", "a_b"}
ServiceNames == {"gmail", "drive", "b_gmail"}
\* the (user_id, service) arguments of the token calls
Pairs == { << "a", "gmail" >>, << "a_b", "gmail" >>, << "a", "b_gmail" >> }
Keys == {"k1", "k2"}
\* the request handlers that may run at the same time
Handlers == {"h1", "h2"}

None == <<>>
Some(v) == <<v>>

(***************************************************************************)
(* Scope Registry.                                                         *)
(***************************************************************************)
GOOGLE_SCOPES ==
    [ gmail    |-> << "https://www.googleapis.com/auth/gmail.send",
                      "https://www.googleapis.com/auth/gmail.readonly",
                      "https://www.googleapis.com/auth/gmail.modify" >>,
      drive    |-> << "https://www.googleapis.com/auth/drive.file",
                      "https://www.googleapis.com/auth/drive.readonly" >>,
      calendar |-> << "https://www.googleapis.com/auth/calendar",
                      "https://www.googleapis.com/auth/calendar.events" >>,
      meet     |-> << "https://www.googleapis.com/auth/calendar.events",
                      "https://www.googleapis.com/auth/meetings.space.created" >>,
      sheets   |-> << "https://www.googleapis.com/auth/spreadsheets",
                      "https://www.googleapis.com/auth/spreadsheets.readonly" >> ]

(***************************************************************************)
(* json.dumps / json.loads on the documents the manager handles.           *)
(***************************************************************************)
Quote(s) == "\"" \o s \o "\""

IsStrLit(t) ==
    /\ Len(t) >= 2
    /\ SubSeq(t, 1, 1) = "\""
    /\ SubSeq(t, Len(t), Len(t)) = "\""

Unquote(t) == SubSeq(t, 2, Len(t) - 1)

\* variant: the two values are written under each other's key
json_dumps_state_swapped(user_id, service) ==
    << "{", Quote("user_id"), ":", Quote(service), ",",
            Quote("service"), ":", Quote(user_id), "}" >>

\* json.dumps({"user_id": user_id, "service": service})
json_dumps_state(user_id, service) ==
    << "{", Quote("user_id"), ":", Quote(user_id), ",",
            Quote("service"), ":", Quote(service), "}" >>

\* json.dumps(scopes): a JSON array of string literals
RECURSIVE json_dumps_items(_)
json_dumps_items(items) ==
    IF Len(items) = 0 THEN <<>>
    ELSE IF Len(items) = 1 THEN << Quote(items[1]) >>
    ELSE << Quote(items[1]), "," >> \o json_dumps_items(Tail(items))

\* variant: only the first item is written
json_dumps_list_first(items) == << "[", Quote(items[1]), "]" >>

json_dumps_list(items) == << "[" >> \o json_dumps_items(items) \o << "]" >>

JsonError == [ok |-> FALSE, kind |-> "error", value |-> <<>>]

\* elements of a JSON array: "item" { , "item" }
RECURSIVE ParseItems(_)
ParseItems(toks) ==
    IF Len(toks) < 1 \/ ~IsStrLit(toks[1])
    THEN JsonError
    ELSE IF Len(toks) = 1
    THEN [ok |-> TRUE, kind |-> "list", value |-> << Unquote(toks[1]) >>]
    ELSE IF toks[2] # ","
    THEN JsonError
    ELSE LET rest == ParseItems(SubSeq(toks, 3, Len(toks)))
         IN  IF ~rest.ok THEN JsonError
             ELSE [ok |-> TRUE, kind |-> "list",
                   value |-> << Unquote(toks[1]) >> \o rest.value]

\* members of a JSON object: "key" : "value" { , "key" : "value" }
RECURSIVE ParseMembers(_)
ParseMembers(toks) ==
    IF Len(toks) < 3 \/ ~IsStrLit(toks[1]) \/ toks[2] # ":" \/ ~IsStrLit(toks[3])
    THEN JsonError
    ELSE IF Len(toks) = 3
    THEN [ok |-> TRUE, kind |-> "dict",
          value |-> (Unquote(toks[1]) :> Unquote(toks[3]))]
    ELSE IF toks[4] # ","
    THEN JsonError
    ELSE LET rest == ParseMembers(SubSeq(toks, 5, Len(toks)))
         IN  IF ~rest.ok THEN JsonError
             ELSE [ok |-> TRUE, kind |-> "dict",
                   value |-> rest.value @@ (Unquote(toks[1]) :> Unquote(toks[3]))]

\* json.loads(text): a dict, another JSON value, or a decode error
json_loads(text) ==
    IF Len(text) = 0 THEN JsonError
    ELSE IF Len(text) = 1
    THEN IF IsStrLit(text[1])
         THEN [ok |-> TRUE, kind |-> "str", value |-> Unquote(text[1])]
         ELSE JsonError
    ELSE IF text[1] = "{" /\ text[Len(text)] = "}"
    THEN IF Len(text) = 2
         THEN [ok |-> TRUE, kind |-> "dict", value |-> [k \in {} |-> ""]]
         ELSE ParseMembers(SubSeq(text, 2, Len(text) - 1))
    ELSE IF text[1] = "[" /\ text[Len(text)] = "]"
    THEN IF Len(text) = 2
         THEN [ok |-> TRUE, kind |-> "list", value |-> <<>>]
         ELSE ParseItems(SubSeq(text, 2, Len(text) - 1))
    ELSE JsonError

(***************************************************************************)
(* Crypto Vault: Fernet under the key of the running process.             *)
(***************************************************************************)
DecryptionError == [ok |-> FALSE, value |-> ""]

\* EncryptionService.encrypt
encrypt(k, data) ==
    IF data = "" THEN "" ELSE k \o ":" \o data

\* variant: the ciphertext is opened without checking whose key made it
decrypt_unauthenticated(k, encrypted_data) ==
    IF encrypted_data = "" THEN [ok |-> TRUE, value |-> ""]
    ELSE IF Len(encrypted_data) > Len(k) + 1
    THEN [ok |-> TRUE,
          value |-> SubSeq(encrypted_data, Len(k) + 2, Len(encrypted_data))]
    ELSE DecryptionError

\* EncryptionService.decrypt
decrypt(k, encrypted_data) ==
    IF encrypted_data = "" THEN [ok |-> TRUE, value |-> ""]
    ELSE IF /\ Len(encrypted_data) > Len(k) + 1
            /\ SubSeq(encrypted_data, 1, Len(k) + 1) = k \o ":"
    THEN [ok |-> TRUE,
          value |-> SubSeq(encrypted_data, Len(k) + 2, Len(encrypted_data))]
    ELSE DecryptionError

(***************************************************************************)
(* State.                                                                  *)
(*   rows       the oauth_tokens table                                     *)
(*   key        the Fernet key of the running process                      *)
(*   now        datetime.utcnow()                                          *)
(*   issued     number of token responses the identity provider has sent   *)
(*   last       the most recent call: arguments, outcome, provider traffic *)
(*   prev       the exchange that succeeded in the call before it, if any  *)
(*   revoked    pairs revoked and not re-authorized since                  *)
(*   vault      the most recent direct use of the EncryptionService        *)
(*   handlers   the request handlers that run concurrently: where each is  *)
(*              in its call, and what its database session holds           *)
(*   started    number of calls the concurrent handlers have begun         *)
(*   tz         the local time zone of the process                         *)
(***************************************************************************)
VARIABLES rows, key, now, issued, last, prev, revoked, vault, handlers,
          started, tz

vars == << rows, key, now, issued, last, prev, revoked, vault, handlers,
           started, tz >>

Blank ==
    [ op |-> "init", user_id |-> "", service |-> "", state |-> None,
      raised |-> FALSE, ok |-> FALSE, token |-> None, info |-> None,
      url |-> None, record |-> None, response |-> None, listing |-> None,
      exchange_calls |-> 0, refresh_calls |-> 0 ]

\* a handler between calls; during a call: the row its session loaded, the
\* change its session holds for the next commit, the provider's response
\* and the stored refresh token a refresh presented to the provider
Idle ==
    [ pc |-> "idle", op |-> "", user_id |-> "", service |-> "",
      loaded |-> None, pending |-> None, response |-> None, expires_at |-> 0,
      raised |-> FALSE, ok |-> FALSE, token |-> None, refresh_with |-> None ]

\* the EncryptionService before its first direct use
VaultIdle ==
    [ op |-> "init", key |-> "", data |-> "", ok |-> FALSE, value |-> "",
      source |-> None ]

Digest(l) ==
    IF l.op = "exchange" /\ l.ok
    THEN Some([ user_id |-> l.user_id, service |-> l.service,
                response |-> [ token |-> l.response[1].token,
                               refresh_token |-> l.response[1].refresh_token,
                               expiry |-> l.response[1].expiry ] ])
    ELSE None

(***************************************************************************)
(* Identity provider (external): token endpoint.                           *)
(***************************************************************************)
\* the credentials a successful token response carries; scopes is the
\* scope parameter of the response, what the provider granted
Credentials(n, t, with_refresh, lifetime, scopes) ==
    [ token |-> "AT" \o ToString(n),
      refresh_token |-> IF with_refresh THEN Some("RT" \o ToString(n)) ELSE None,
      expiry |-> IF lifetime = None THEN None ELSE Some(t + lifetime[1]),
      scopes |-> scopes ]

\* the grant of a code exchange: the scopes requested, or those and the
\* scopes of a service the user authorized before (lines 140-143)
granted_scopes(scopes, extra) ==
    IF extra THEN scopes \o GOOGLE_SCOPES["drive"] ELSE scopes

(***************************************************************************)
(* Token Store helpers.                                                    *)
(***************************************************************************)
\* f"{user_id}_{service}"
token_id(user_id, service) == user_id \o "_" \o service

\* variant: the where clause is missing
select_all(table, id) == table

\* select(OAuthToken).where(OAuthToken.id == token_id)
select_by_id(table, id) == { r \in table : r.id = id }

\* if not oauth_token.refresh_token
no_refresh_token(r) == r.refresh_token = None \/ r.refresh_token = Some("")

\* variant: a token is still served at the instant it expires
is_expired_strict(t, r) == t > r.expires_at

\* variant: a token is served for a minute past its expiry
is_expired_grace(t, r) == t >= r.expires_at + 60

\* datetime.utcnow() >= oauth_token.expires_at
is_expired(t, r) == t >= r.expires_at

DefaultLifetime == 3600
RefreshLifetime == 3600

\* the clock is observed once per default lifetime
TickStep == DefaultLifetime
MaxTime == MaxTicks * TickStep

\* expires_in of a token response: absent, or two hours
ProviderLifetimes == { None, Some(2 * TickStep) }

\* what the token endpoint answers to a code exchange and to a refresh
Rejected ==
    [accept |-> FALSE, with_refresh |-> FALSE, lifetime |-> None,
     extra |-> FALSE]

ExchangeReplies ==
    { Rejected } \cup
    { [accept |-> TRUE, with_refresh |-> w, lifetime |-> l, extra |-> FALSE] :
        w \in BOOLEAN, l \in ProviderLifetimes } \cup
    { [accept |-> TRUE, with_refresh |-> TRUE, lifetime |-> None,
       extra |-> TRUE] }

RefreshReplies ==
    { Rejected } \cup
    { [accept |-> TRUE, with_refresh |-> w, lifetime |-> Some(2 * TickStep),
       extra |-> FALSE] :
        w \in BOOLEAN }

(***************************************************************************)
(* OAuthManager.get_authorization_url                                      *)
(***************************************************************************)
\* flow.authorization_url(...): the query parameters of the redirect target
authorization_url(scopes, state) ==
    [ scope |-> scopes, state |-> state, access_type |-> "offline",
      include_granted_scopes |-> "true", prompt |-> "consent" ]

\* the state the URL carries: the caller's, or one created from the pair
url_state(user_id, service, state) ==
    IF state = None \/ state = Some(<<>>)
    THEN json_dumps_state(user_id, service)
    ELSE state[1]

get_authorization_url(user_id, service, state) ==
    IF service \notin DOMAIN GOOGLE_SCOPES
    THEN [raised |-> TRUE, url |-> None]
    ELSE [raised |-> FALSE,
          url |-> Some(authorization_url(GOOGLE_SCOPES[service],
                                         url_state(user_id, service, state)))]

(***************************************************************************)
(* OAuthManager.exchange_code_for_token                                    *)
(***************************************************************************)
\* variant: a state without user_id is read as naming the empty user
parse_state_default_user(state) ==
    LET state_data == json_loads(state)
    IN  IF /\ state_data.ok
           /\ state_data.kind = "dict"
           /\ "service" \in DOMAIN state_data.value
           /\ state_data.value["service"] \in DOMAIN GOOGLE_SCOPES
        THEN [ok |-> TRUE,
              user_id |-> IF "user_id" \in DOMAIN state_data.value
                          THEN state_data.value["user_id"] ELSE "",
              service |-> state_data.value["service"]]
        ELSE [ok |-> FALSE, user_id |-> "", service |-> ""]

\* lines 119-122: the state names a user and a service of the registry
parse_state(state) ==
    LET state_data == json_loads(state)
    IN  IF /\ state_data.ok
           /\ state_data.kind = "dict"
           /\ "user_id" \in DOMAIN state_data.value
           /\ "service" \in DOMAIN state_data.value
           /\ state_data.value["service"] \in DOMAIN GOOGLE_SCOPES
        THEN [ok |-> TRUE, user_id |-> state_data.value["user_id"],
              service |-> state_data.value["service"]]
        ELSE [ok |-> FALSE, user_id |-> "", service |-> ""]

\* the local zones a process may run in: one with a fixed UTC offset, one
\* whose clocks go forward an hour and one whose clocks go back an hour
\* when the wall clock reads Transition
Zones == { "UTC", "forward", "back" }
Transition == 2 * TickStep

\* the UTC offset the platform gives a naive datetime read as local time,
\* relative to the zone's standard offset
utcoffset(zone, dt) ==
    IF zone = "forward" THEN (IF dt >= Transition THEN 3600 ELSE 0)
    ELSE IF zone = "back" THEN (IF dt < Transition THEN 3600 ELSE 0)
    ELSE 0

\* datetime.timestamp() of a naive datetime: it is taken as local time
timestamp(zone, dt) == dt - utcoffset(zone, dt)

\* line 149: credentials.expiry and utcnow() are naive UTC datetimes
exchange_expires_at(zone, t, credentials) ==
    t + (IF credentials.expiry # None
         THEN timestamp(zone, credentials.expiry[1]) - timestamp(zone, t)
         ELSE DefaultLifetime)

\* variant: the refresh token is stored as the provider sent it
encrypt_refresh_token_plain(k, credentials) ==
    IF credentials.refresh_token # None /\ credentials.refresh_token # Some("")
    THEN Some(credentials.refresh_token[1])
    ELSE None

\* line 153
encrypt_refresh_token(k, credentials) ==
    IF credentials.refresh_token # None /\ credentials.refresh_token # Some("")
    THEN Some(encrypt(k, credentials.refresh_token[1]))
    ELSE None

\* variant: an update keeps the stored refresh token when the new exchange
\* brought none
upsert_keep_refresh(table, found, id, user_id, service, access, refresh, expires_at, scopes, t) ==
    IF found # {}
    THEN LET existing_token == CHOOSE r \in found : TRUE
         IN  (table \ {existing_token}) \cup
             { [existing_token EXCEPT !.access_token = access,
                                      !.refresh_token =
                                          IF refresh = None THEN @ ELSE refresh,
                                      !.expires_at = expires_at,
                                      !.scopes = json_dumps_list(scopes),
                                      !.updated_at = t] }
    ELSE table \cup
         { [ id |-> id, user_id |-> user_id, service |-> service,
             access_token |-> access, refresh_token |-> refresh,
             token_type |-> "Bearer", expires_at |-> expires_at,
             scopes |-> json_dumps_list(scopes),
             created_at |-> t, updated_at |-> t ] }

\* lines 162-181: update the existing row or add a new one
upsert(table, found, id, user_id, service, access, refresh, expires_at, scopes, t) ==
    IF found # {}
    THEN LET existing_token == CHOOSE r \in found : TRUE
         IN  (table \ {existing_token}) \cup
             { [existing_token EXCEPT !.access_token = access,
                                      !.refresh_token = refresh,
                                      !.expires_at = expires_at,
                                      !.scopes = json_dumps_list(scopes),
                                      !.updated_at = t] }
    ELSE table \cup
         { [ id |-> id, user_id |-> user_id, service |-> service,
             access_token |-> access, refresh_token |-> refresh,
             token_type |-> "Bearer", expires_at |-> expires_at,
             scopes |-> json_dumps_list(scopes),
             created_at |-> t, updated_at |-> t ] }

\* lines 187-193
token_info(user_id, service, scopes, expires_at, credentials) ==
    [ user_id |-> user_id, service |-> service, scopes |-> scopes,
      expires_at |-> expires_at,
      has_refresh_token |-> (credentials.refresh_token # None
                             /\ credentials.refresh_token # Some("")) ]

\* variant: the scopes of the token response are taken
exchange_scopes_granted(service, credentials) == credentials.scopes

\* line 122: the scopes of the registry, written to the row (lines 167,
\* 179) and to the summary (line 190)
exchange_scopes(service, credentials) == GOOGLE_SCOPES[service]

\* variant: a failed exchange clears the row of the key
rows_after_exchange_error_cleared(table, id) ==
    table \ { r \in table : r.id = id }

\* lines 195-197: the error leaves before anything was added or committed
rows_after_exchange_error(table, id) == table

\* lines 145-193 for one answer of the token endpoint
exchange_with_reply(call, user_id, service, reply) ==
    LET fetched == reply.accept /\ issued < MaxIssued
        credentials == Credentials(issued + 1, now, reply.with_refresh,
                                   reply.lifetime,
                                   granted_scopes(GOOGLE_SCOPES[service],
                                                  reply.extra))
        scopes == exchange_scopes(service, credentials)
        expires_at == exchange_expires_at(tz, now, credentials)
        encrypted_access_token == encrypt(key, credentials.token)
        encrypted_refresh_token == encrypt_refresh_token(key, credentials)
        id == token_id(user_id, service)
        found == select_by_id(rows, id)
        called == [call EXCEPT !.user_id = user_id, !.service = service,
                               !.exchange_calls = 1]
    IN  IF ~fetched
        THEN /\ last' = [called EXCEPT !.raised = TRUE]
             /\ rows' = rows_after_exchange_error(rows, id)
             /\ UNCHANGED << issued, revoked >>
        ELSE IF Cardinality(found) > 1
        THEN /\ last' = [called EXCEPT !.raised = TRUE,
                                       !.response = Some(credentials)]
             /\ issued' = issued + 1
             /\ UNCHANGED << rows, revoked >>
        ELSE /\ rows' = upsert(rows, found, id, user_id, service,
                               encrypted_access_token,
                               encrypted_refresh_token, expires_at,
                               scopes, now)
             /\ issued' = issued + 1
             /\ revoked' = revoked \ { << user_id, service >> }
             /\ last' = [called EXCEPT
                           !.ok = TRUE,
                           !.record = IF found = {} THEN None
                                      ELSE Some(CHOOSE r \in found : TRUE),
                           !.response = Some(credentials),
                           !.info = Some(token_info(user_id, service, scopes,
                                                    expires_at, credentials))]

ExchangeCode(state) ==
    LET parsed == parse_state(state)
        call == [Blank EXCEPT !.op = "exchange", !.state = Some(state)]
    IN  /\ prev' = Digest(last)
        /\ UNCHANGED << vault, handlers, started >>
        /\ UNCHANGED << key, tz, now >>
        /\ IF ~parsed.ok
           THEN /\ last' = [call EXCEPT !.raised = TRUE]
                /\ UNCHANGED << rows, issued, revoked >>
           ELSE \E reply \in ExchangeReplies :
                   exchange_with_reply(call, parsed.user_id, parsed.service,
                                       reply)

BuildAuthorizationUrl(user_id, service, state) ==
    LET res == get_authorization_url(user_id, service, state)
    IN  /\ last' = [Blank EXCEPT !.op = "url", !.user_id = user_id,
                                 !.service = service, !.state = state,
                                 !.raised = res.raised, !.ok = ~res.raised,
                                 !.url = res.url]
        /\ prev' = Digest(last)
        /\ UNCHANGED << vault, handlers, started >>
        /\ UNCHANGED << rows, key, tz, now, issued, revoked >>

(***************************************************************************)
(* OAuthManager._refresh_token                                             *)
(***************************************************************************)
\* variant: a refresh token the provider reissues replaces the stored one
refreshed_row_rotating(oauth_token, k, credentials, t) ==
    [oauth_token EXCEPT !.access_token = encrypt(k, credentials.token),
                        !.refresh_token =
                            IF credentials.refresh_token # None
                            THEN Some(encrypt(k, credentials.refresh_token[1]))
                            ELSE @,
                        !.expires_at = t + RefreshLifetime,
                        !.updated_at = t]

\* variant: the expiry is reset to the refresh time itself
refreshed_row_no_lifetime(oauth_token, k, credentials, t) ==
    [oauth_token EXCEPT !.access_token = encrypt(k, credentials.token),
                        !.expires_at = t,
                        !.updated_at = t]

\* lines 278-280: the row after a successful refresh
refreshed_row(oauth_token, k, credentials, t) ==
    [oauth_token EXCEPT !.access_token = encrypt(k, credentials.token),
                        !.expires_at = t + RefreshLifetime,
                        !.updated_at = t]

\* variant: a rejected refresh is tried a second time
refresh_token_retry(oauth_token, k, t, n, reply) ==
    LET refresh_token_plain == decrypt(k, oauth_token.refresh_token[1])
        scopes == json_loads(oauth_token.scopes)
        credentials == Credentials(n + 1, t, reply.with_refresh,
                                   reply.lifetime, scopes.value)
        failed(calls) == [refreshed |-> FALSE, calls |-> calls,
                          response |-> None, row |-> oauth_token]
    IN  IF ~refresh_token_plain.ok THEN failed(0)
        ELSE IF ~scopes.ok THEN failed(0)
        ELSE IF ~(reply.accept /\ n < MaxIssued) THEN failed(2)
        ELSE [refreshed |-> TRUE, calls |-> 1,
              response |-> Some(credentials),
              row |-> refreshed_row(oauth_token, k, credentials, t)]

\* outcome of _refresh_token(oauth_token): refreshed or not, the provider
\* calls it made, the provider's response and the row it committed
refresh_token(oauth_token, k, t, n, reply) ==
    LET refresh_token_plain == decrypt(k, oauth_token.refresh_token[1])
        scopes == json_loads(oauth_token.scopes)
        credentials == Credentials(n + 1, t, reply.with_refresh,
                                   reply.lifetime, scopes.value)
        failed(calls) == [refreshed |-> FALSE, calls |-> calls,
                          response |-> None, row |-> oauth_token]
    IN  IF ~refresh_token_plain.ok THEN failed(0)
        ELSE IF ~scopes.ok THEN failed(0)
        ELSE IF ~(reply.accept /\ n < MaxIssued) THEN failed(1)
        ELSE [refreshed |-> TRUE, calls |-> 1,
              response |-> Some(credentials),
              row |-> refreshed_row(oauth_token, k, credentials, t)]

(***************************************************************************)
(* OAuthManager.get_valid_token                                            *)
(***************************************************************************)
\* variant: hands out the stored column without decrypting it
decrypt_access_token_raw(k, oauth_token) ==
    Some(oauth_token.access_token)

\* lines 240-245: the plaintext access token, or None when decryption fails
decrypt_access_token(k, oauth_token) ==
    LET plain == decrypt(k, oauth_token.access_token)
    IN  IF plain.ok THEN Some(plain.value) ELSE None

\* variant: a row whose refresh failed is deleted
rows_after_failed_refresh_deleted(table, oauth_token) ==
    table \ {oauth_token}

\* lines 287-289, 232-233: the failure is logged, nothing was assigned or
\* committed
rows_after_failed_refresh(table, oauth_token) == table

\* lines 229-245 for one answer of the token endpoint to the refresh
get_with_reply(seen, oauth_token, reply) ==
    LET refresh == refresh_token(oauth_token, key, now, issued, reply)
    IN  IF ~refresh.refreshed
        THEN /\ last' = [seen EXCEPT !.refresh_calls = refresh.calls]
             /\ rows' = rows_after_failed_refresh(rows, oauth_token)
             /\ UNCHANGED issued
        ELSE /\ rows' = (rows \ {oauth_token}) \cup {refresh.row}
             /\ issued' = issued + 1
             /\ last' = [seen EXCEPT
                           !.refresh_calls = refresh.calls,
                           !.response = refresh.response,
                           !.token = decrypt_access_token(key, refresh.row)]

GetValidToken(user_id, service) ==
    LET id == token_id(user_id, service)
        found == select_by_id(rows, id)
        oauth_token == CHOOSE r \in found : TRUE
        call == [Blank EXCEPT !.op = "get", !.user_id = user_id,
                              !.service = service]
        seen == [call EXCEPT !.record = Some(oauth_token)]
    IN  /\ prev' = Digest(last)
        /\ UNCHANGED << vault, handlers, started >>
        /\ UNCHANGED << key, tz, now, revoked >>
        /\ IF found = {}
           THEN /\ last' = call
                /\ UNCHANGED << rows, issued >>
           ELSE IF Cardinality(found) > 1
           THEN /\ last' = [call EXCEPT !.raised = TRUE]
                /\ UNCHANGED << rows, issued >>
           ELSE IF ~is_expired(now, oauth_token)
           THEN /\ last' = [seen EXCEPT
                              !.token = decrypt_access_token(key, oauth_token)]
                /\ UNCHANGED << rows, issued >>
           ELSE IF no_refresh_token(oauth_token)
           THEN /\ last' = seen
                /\ UNCHANGED << rows, issued >>
           ELSE \E reply \in RefreshReplies :
                   get_with_reply(seen, oauth_token, reply)

(***************************************************************************)
(* OAuthManager.revoke_token                                               *)
(***************************************************************************)
RevokeToken(user_id, service) ==
    LET id == token_id(user_id, service)
        found == select_by_id(rows, id)
        oauth_token == CHOOSE r \in found : TRUE
        call == [Blank EXCEPT !.op = "revoke", !.user_id = user_id,
                              !.service = service]
    IN  /\ prev' = Digest(last)
        /\ UNCHANGED << vault, handlers, started >>
        /\ UNCHANGED << key, tz, now, issued >>
        /\ IF found = {}
           THEN /\ last' = call
                /\ UNCHANGED << rows, revoked >>
           ELSE IF Cardinality(found) > 1
           THEN /\ last' = [call EXCEPT !.raised = TRUE]
                /\ UNCHANGED << rows, revoked >>
           ELSE /\ rows' = rows \ {oauth_token}
                /\ revoked' = revoked \cup { << user_id, service >> }
                /\ last' = [call EXCEPT !.ok = TRUE,
                                        !.record = Some(oauth_token)]

(***************************************************************************)
(* list_user_tokens (routes/token_routes.py)                               *)
(***************************************************************************)
\* lines 99-105: what the listing shows of one row
listed_service(token) ==
    [ service |-> token.service, expires_at |-> token.expires_at,
      has_refresh_token |-> ~no_refresh_token(token),
      created_at |-> token.created_at, updated_at |-> token.updated_at ]

ListTokens(user_id) ==
    LET tokens == { r \in rows : r.user_id = user_id }
    IN  /\ last' = [Blank EXCEPT
                      !.op = "list", !.user_id = user_id, !.ok = TRUE,
                      !.listing =
                          Some([ user_id |-> user_id,
                                 authorized_services |->
                                     { listed_service(t) : t \in tokens },
                                 total_services |-> Cardinality(tokens) ])]
        /\ prev' = Digest(last)
        /\ UNCHANGED << vault, handlers, started >>
        /\ UNCHANGED << rows, key, tz, now, issued, revoked >>

(***************************************************************************)
(* Environment: the clock, and a restart of the process under another key. *)
(***************************************************************************)
Tick ==
    /\ now + TickStep <= MaxTime
    /\ now' = now + TickStep
    /\ last' = [Blank EXCEPT !.op = "tick"]
    /\ prev' = Digest(last)
    /\ UNCHANGED << vault, handlers, started >>
    /\ UNCHANGED << rows, key, tz, issued, revoked >>

\* EncryptionService.__init__ with a different ENCRYPTION_KEY
Restart(k) ==
    /\ k # key
    /\ key' = k
    /\ last' = [Blank EXCEPT !.op = "restart"]
    /\ prev' = Digest(last)
    /\ UNCHANGED << vault, handlers, started >>
    /\ UNCHANGED << rows, now, issued, revoked, tz >>

(***************************************************************************)
(* Inputs of the calls.                                                    *)
(***************************************************************************)
\* callback states: well-formed ones, and malformed ones of every kind
MalformedStates ==
    { << "garbage" >>,
      << Quote("a") >>,
      << "{", Quote("user_id"), ":", Quote("a"), "}" >>,
      << "{", Quote("service"), ":", Quote("gmail"), "}" >> }

\* the pairs a callback state names: one with a service of the registry,
\* one with a service outside it
StatePairs == { << "a_b", "gmail" >>, << "a", "b_gmail" >> }

CallbackStates ==
    { json_dumps_state(p[1], p[2]) : p \in StatePairs } \cup MalformedStates

\* the optional state argument of get_authorization_url
UrlStates ==
    { None, Some(<<>>), Some(<< "csrf" >>), Some(json_dumps_state("a_b", "drive")) }

\* a fresh process on an empty table
Boot ==
    /\ rows = {}
    /\ key = "k1"
    /\ now = 0
    /\ issued = 0
    /\ last = Blank
    /\ prev = None
    /\ revoked = {}
    /\ vault = VaultIdle
    /\ handlers = [h \in Handlers |-> Idle]
    /\ started = 0

\* the process runs in a zone of fixed UTC offset
Init == Boot /\ tz = "UTC"

Next ==
    \/ \E st \in CallbackStates : ExchangeCode(st)
    \/ \E p \in Pairs : GetValidToken(p[1], p[2])
    \/ \E p \in Pairs : RevokeToken(p[1], p[2])
    \/ \E u \in UserIds : ListTokens(u)
    \/ Tick
    \/ \E k \in Keys : Restart(k)

Spec == Init /\ [][Next]_vars

(***************************************************************************)
(* The authorization round trip on its own: URLs are built for every       *)
(* input, and the provider redirects back to the callback with the state   *)
(* the last URL carried.                                                   *)
(***************************************************************************)
\* oauth_callback reached through the provider's redirect
Callback ==
    /\ last.op = "url"
    /\ last.url # None
    /\ issued < MaxCallbacks
    /\ ExchangeCode(last.url[1].state)

NextUrl ==
    \/ \E u \in UserIds, s \in ServiceNames, st \in UrlStates :
          BuildAuthorizationUrl(u, s, st)
    \/ Callback

SpecUrl == Init /\ [][NextUrl]_vars

(***************************************************************************)
(* The EncryptionService on its own: encrypt and decrypt applied to every  *)
(* string of a bounded set under every key.                                *)
(***************************************************************************)
\* the pieces strings are made of: token text, a key tag, a separator
Alphabet == { "AT", "k1:", ":" }

RECURSIVE StringsUpTo(_)
StringsUpTo(n) ==
    IF n = 0 THEN { "" }
    ELSE LET shorter == StringsUpTo(n - 1)
         IN  shorter \cup { s \o c : s \in shorter, c \in Alphabet }

Plaintexts == StringsUpTo(MaxPlainLen)

\* encryption.encrypt(data) in a process whose key is k
Encrypt(k, data) ==
    /\ vault' = [ op |-> "encrypt", key |-> k, data |-> data, ok |-> TRUE,
                  value |-> encrypt(k, data), source |-> None ]
    /\ UNCHANGED << rows, key, tz, now, issued, last, prev, revoked, handlers,
                    started >>

\* encryption.decrypt of what the last encrypt returned, in a process whose
\* key is k
DecryptOutput(k) ==
    LET plain == decrypt(k, vault.value)
    IN  /\ vault.op = "encrypt"
        /\ vault' = [ op |-> "decrypt", key |-> k, data |-> vault.value,
                      ok |-> plain.ok, value |-> plain.value,
                      source |-> Some([key |-> vault.key,
                                       data |-> vault.data]) ]
        /\ UNCHANGED << rows, key, tz, now, issued, last, prev, revoked,
                        handlers, started >>

\* encryption.decrypt of a string that no encrypt call returned
DecryptForeign(k, encrypted_data) ==
    LET plain == decrypt(k, encrypted_data)
    IN  /\ vault' = [ op |-> "decrypt", key |-> k, data |-> encrypted_data,
                      ok |-> plain.ok, value |-> plain.value,
                      source |-> None ]
        /\ UNCHANGED << rows, key, tz, now, issued, last, prev, revoked,
                        handlers, started >>

NextCrypto ==
    \/ \E k \in Keys, data \in Plaintexts : Encrypt(k, data)
    \/ \E k \in Keys : DecryptOutput(k)
    \/ \E k \in Keys, c \in Plaintexts : DecryptForeign(k, c)

SpecCrypto == Init /\ [][NextCrypto]_vars

(***************************************************************************)
(* Concurrent request handlers.  Each handler runs its call on a session   *)
(* of its own; control passes to another handler at the awaits of the      *)
(* call (the select, the commit, the reload).  A commit flushes what the   *)
(* session holds: an INSERT of the added row, an UPDATE of the columns     *)
(* that were assigned a different value, or a DELETE.                      *)
(***************************************************************************)
\* the pairs the concurrent calls are about
ConcPairs == { << "a_b", "gmail" >>, << "a", "gmail" >> }

\* variant: the table has no primary key
insert_row_unchecked(table, row) ==
    [ok |-> TRUE, table |-> table \cup {row}]

\* INSERT: id is the primary key, a second row with the id is refused
insert_row(table, row) ==
    IF \E r \in table : r.id = row.id
    THEN [ok |-> FALSE, table |-> table]
    ELSE [ok |-> TRUE, table |-> table \cup {row}]

\* variant: an update of a row that is gone writes the row again
update_row_merge(table, loaded, obj) ==
    [ok |-> TRUE, table |-> { r \in table : r.id # loaded.id } \cup {obj}]

\* UPDATE ... WHERE id = :id of the columns whose value the session
\* changed; it fails when the row is gone
update_row(table, loaded, obj) ==
    LET target == { r \in table : r.id = loaded.id }
        changed(r) ==
            [r EXCEPT
               !.access_token = IF obj.access_token # loaded.access_token
                                THEN obj.access_token ELSE @,
               !.refresh_token = IF obj.refresh_token # loaded.refresh_token
                                 THEN obj.refresh_token ELSE @,
               !.expires_at = IF obj.expires_at # loaded.expires_at
                              THEN obj.expires_at ELSE @,
               !.scopes = IF obj.scopes # loaded.scopes
                          THEN obj.scopes ELSE @,
               !.updated_at = IF obj.updated_at # loaded.updated_at
                              THEN obj.updated_at ELSE @]
    IN  IF target = {}
        THEN [ok |-> FALSE, table |-> table]
        ELSE [ok |-> TRUE,
              table |-> (table \ target) \cup { changed(r) : r \in target }]

\* DELETE ... WHERE id = :id; a row that is already gone is not an error
delete_row(table, loaded) ==
    [ok |-> TRUE, table |-> { r \in table : r.id # loaded.id }]

\* exchange_code_for_token up to the await of the select (lines 117-159)
BeginExchange(h, state) ==
    LET parsed == parse_state(state)
        fetched == issued < MaxIssued
        credentials == Credentials(issued + 1, now, TRUE, None,
                                   GOOGLE_SCOPES[parsed.service])
        found == select_by_id(rows, token_id(parsed.user_id, parsed.service))
        call == [Idle EXCEPT !.op = "exchange", !.user_id = parsed.user_id,
                             !.service = parsed.service]
    IN  /\ handlers[h].pc \in {"idle", "done"}
        /\ started < MaxCalls
        /\ parsed.ok
        /\ started' = started + 1
        /\ IF ~fetched
           THEN /\ handlers' = [handlers EXCEPT
                                  ![h] = [call EXCEPT !.pc = "done",
                                                      !.raised = TRUE]]
                /\ UNCHANGED issued
           ELSE /\ issued' = issued + 1
                /\ handlers' =
                     [handlers EXCEPT
                        ![h] = [call EXCEPT
                                  !.pc = "selected",
                                  !.response = Some(credentials),
                                  !.expires_at =
                                      exchange_expires_at(tz, now,
                                                          credentials),
                                  !.loaded =
                                      IF found = {} THEN None
                                      ELSE Some(CHOOSE r \in found : TRUE)]]
        /\ UNCHANGED << rows, key, tz, now, last, prev, revoked, vault >>

\* lines 162-181: the session now holds the changed row or the added row
StageExchange(h) ==
    LET me == handlers[h]
        found == IF me.loaded = None THEN {} ELSE { me.loaded[1] }
        credentials == me.response[1]
        held == upsert(found, found, token_id(me.user_id, me.service),
                       me.user_id, me.service,
                       encrypt(key, credentials.token),
                       encrypt_refresh_token(key, credentials),
                       me.expires_at, GOOGLE_SCOPES[me.service], now)
    IN  /\ me.pc = "selected"
        /\ me.op = "exchange"
        /\ handlers' =
             [handlers EXCEPT
                ![h] = [me EXCEPT
                          !.pc = "staged",
                          !.pending =
                              Some([kind |-> IF found = {} THEN "insert"
                                             ELSE "update",
                                    row |-> CHOOSE r \in held : TRUE])]]
        /\ UNCHANGED << rows, key, tz, now, issued, last, prev, revoked, vault,
                        started >>

\* what the token endpoint answers to a refresh of a concurrent call
ConcRefreshReply ==
    [accept |-> TRUE, with_refresh |-> FALSE, lifetime |-> Some(2 * TickStep),
     extra |-> FALSE]

\* get_valid_token up to its first await after the select: it returns, or
\* _refresh_token has assigned the new values and awaits the commit
BeginGet(h, user_id, service) ==
    LET found == select_by_id(rows, token_id(user_id, service))
        oauth_token == CHOOSE r \in found : TRUE
        call == [Idle EXCEPT !.op = "get", !.user_id = user_id,
                             !.service = service]
        refresh == refresh_token(oauth_token, key, now, issued,
                                 ConcRefreshReply)
        finished(token) ==
            /\ handlers' = [handlers EXCEPT
                              ![h] = [call EXCEPT !.pc = "done",
                                                  !.token = token]]
            /\ UNCHANGED issued
    IN  /\ handlers[h].pc \in {"idle", "done"}
        /\ started < MaxCalls
        /\ started' = started + 1
        /\ IF found = {} THEN finished(None)
           ELSE IF ~is_expired(now, oauth_token)
           THEN finished(decrypt_access_token(key, oauth_token))
           ELSE IF no_refresh_token(oauth_token) THEN finished(None)
           ELSE IF ~refresh.refreshed THEN finished(None)
           ELSE /\ issued' = issued + 1
                /\ handlers' =
                     [handlers EXCEPT
                        ![h] = [call EXCEPT
                                  !.pc = "staged",
                                  !.loaded = Some(oauth_token),
                                  !.refresh_with = oauth_token.refresh_token,
                                  !.response = refresh.response,
                                  !.pending = Some([kind |-> "update",
                                                    row |-> refresh.row])]]
        /\ UNCHANGED << rows, key, tz, now, last, prev, revoked, vault >>

\* revoke_token up to the await of the commit (lines 303-313)
BeginRevoke(h, user_id, service) ==
    LET found == select_by_id(rows, token_id(user_id, service))
        oauth_token == CHOOSE r \in found : TRUE
        call == [Idle EXCEPT !.op = "revoke", !.user_id = user_id,
                             !.service = service]
    IN  /\ handlers[h].pc \in {"idle", "done"}
        /\ started < MaxCalls
        /\ started' = started + 1
        /\ handlers' =
             [handlers EXCEPT
                ![h] = IF found = {}
                       THEN [call EXCEPT !.pc = "done"]
                       ELSE [call EXCEPT
                               !.pc = "staged",
                               !.loaded = Some(oauth_token),
                               !.pending = Some([kind |-> "delete",
                                                 row |-> oauth_token])]]
        /\ UNCHANGED << rows, key, tz, now, issued, last, prev, revoked, vault >>

\* await session.commit(): the flush and the commit of what the session
\* holds, and what the call makes of a failure
Commit(h) ==
    LET me == handlers[h]
        held == me.pending[1]
        flushed ==
            IF held.kind = "insert"
            THEN insert_row(rows, [held.row EXCEPT !.created_at = now,
                                                   !.updated_at = now])
            ELSE IF held.kind = "update"
            THEN update_row(rows, me.loaded[1], held.row)
            ELSE delete_row(rows, me.loaded[1])
        after == [me EXCEPT !.pending = None, !.loaded = None,
                           !.expires_at = 0]
    IN  /\ me.pc = "staged"
        /\ rows' = flushed.table
        /\ handlers' =
             [handlers EXCEPT
                ![h] = IF me.op = "get"
                       THEN IF flushed.ok
                            THEN [after EXCEPT !.pc = "committed"]
                            ELSE [after EXCEPT !.pc = "done"]
                       ELSE [after EXCEPT !.pc = "done",
                                          !.ok = flushed.ok,
                                          !.raised = ~flushed.ok]]
        /\ revoked' =
             IF me.op = "revoke"
             THEN revoked \cup { << me.user_id, me.service >> }
             ELSE IF me.op = "exchange" /\ flushed.ok
             THEN revoked \ { << me.user_id, me.service >> }
             ELSE revoked
        /\ UNCHANGED << key, tz, now, issued, last, prev, vault, started >>

\* lines 235-245: session.refresh(oauth_token), then decrypt and return
Reload(h) ==
    LET me == handlers[h]
        found == select_by_id(rows, token_id(me.user_id, me.service))
    IN  /\ me.pc = "committed"
        /\ handlers' =
             [handlers EXCEPT
                ![h] = [me EXCEPT
                          !.pc = "done",
                          !.token =
                              IF found = {} THEN None
                              ELSE decrypt_access_token(
                                       key, CHOOSE r \in found : TRUE)]]
        /\ UNCHANGED << rows, key, tz, now, issued, last, prev, revoked, vault,
                        started >>

\* the clock, for as long as some row has not expired yet: once every row
\* has, more time makes no difference to a call
Elapse == (\E r \in rows : ~is_expired(now, r)) /\ Tick

ConcStates == { json_dumps_state(p[1], p[2]) : p \in ConcPairs }

NextConc ==
    \/ \E h \in Handlers, st \in ConcStates : BeginExchange(h, st)
    \/ \E h \in Handlers : StageExchange(h)
    \/ \E h \in Handlers, p \in ConcPairs : BeginGet(h, p[1], p[2])
    \/ \E h \in Handlers, p \in ConcPairs : BeginRevoke(h, p[1], p[2])
    \/ \E h \in Handlers : Commit(h)
    \/ \E h \in Handlers : Reload(h)
    \/ Elapse

SpecConc == Init /\ [][NextConc]_vars

(***************************************************************************)
(* The token calls of one pair in a process of any local zone.             *)
(***************************************************************************)
InitZone == Boot /\ tz \in Zones

NextZone ==
    \/ ExchangeCode(json_dumps_state("a_b", "gmail"))
    \/ GetValidToken("a_b", "gmail")
    \/ Tick

SpecZone == InitZone /\ [][NextZone]_vars

(***************************************************************************)
(* Properties.  The helpers below restate keys, ciphertexts and expiry     *)
(* directly, independently of the operators that model the code.           *)
(***************************************************************************)
\* the rows stored under the composite key of a pair
RowsOf(table, user_id, service) ==
    { r \in table : r.id = user_id \o "_" \o service }

\* ciphertext c is the encryption of plaintext p under key k
Encrypts(c, k, p) == p # "" /\ c = k \o ":" \o p

\* the call in `last` is about the same pair as the exchange in `prev`
SamePairAsPrev ==
    /\ prev # None
    /\ prev[1].user_id = last.user_id
    /\ prev[1].service = last.service

C2_KeyIdentifiesPair ==
    (last.op \in {"get", "revoke"} /\ last.record # None)
        => /\ last.record[1].user_id = last.user_id
           /\ last.record[1].service = last.service

\* C3: two successive successful exchangeCode calls for the same pair leave
\* exactly one record under the key, holding the access token, refresh
\* token and expiry of the second exchange.
C3_SecondExchangeWins ==
    (last.op = "exchange" /\ last.ok /\ SamePairAsPrev)
        => LET found == RowsOf(rows, last.user_id, last.service)
               second == last.response[1]
           IN  /\ Cardinality(found) = 1
               /\ \A r \in found :
                    /\ Encrypts(r.access_token, key, second.token)
                    /\ IF second.refresh_token = None
                       THEN r.refresh_token = None
                       ELSE /\ r.refresh_token # None
                            /\ Encrypts(r.refresh_token[1], key,
                                        second.refresh_token[1])
                    /\ r.expires_at = IF second.expiry = None
                                      THEN now + 3600
                                      ELSE second.expiry[1]

C3_Witness ==
    /\ last.op = "exchange"
    /\ last.ok
    /\ SamePairAsPrev
    /\ prev[1].response.refresh_token # None
    /\ last.response[1].refresh_token = None
    /\ Cardinality(RowsOf(rows, last.user_id, last.service)) = 1

\* C4: a getValidToken call on an expired record with a stored refresh
\* token, when the provider accepts the refresh, makes exactly one provider
\* refresh call, returns the newly issued access token, which differs from
\* the one stored before, and leaves the record expiring strictly after now.
C4_RefreshOnRead ==
    (/\ last.op = "get"
     /\ last.record # None
     /\ now >= last.record[1].expires_at
     /\ last.record[1].refresh_token # None
     /\ last.response # None)
        => /\ last.refresh_calls = 1
           /\ last.token = Some(last.response[1].token)
           /\ ~Encrypts(last.record[1].access_token, key, last.token[1])
           /\ RowsOf(rows, last.user_id, last.service) # {}
           /\ \A r \in RowsOf(rows, last.user_id, last.service) :
                r.expires_at > now

C4_Witness ==
    /\ last.op = "get"
    /\ last.record # None
    /\ now >= last.record[1].expires_at
    /\ last.response # None
    /\ last.refresh_calls = 1
    /\ last.token = Some("AT2")

\* C5: getValidToken on an expired record without a refresh token returns
\* not-found, makes no provider call and leaves the store unchanged; the
\* record stays as it is, so this repeats, until an exchangeCode or a
\* revoke for that key succeeds.
C5_ExpiredWithoutRefresh ==
    [][ \A p \in Pairs :
          LET found == RowsOf(rows, p[1], p[2])
          IN  (/\ found # {}
               /\ \A r \in found : now >= r.expires_at /\ r.refresh_token = None)
              => /\ (last'.op = "get" /\ last'.user_id = p[1]
                                      /\ last'.service = p[2])
                      => /\ ~last'.raised
                         /\ last'.token = None
                         /\ last'.refresh_calls = 0
                         /\ issued' = issued
                         /\ rows' = rows
                 /\ ~(/\ last'.op \in {"exchange", "revoke"}
                      /\ last'.ok
                      /\ last'.user_id \o "_" \o last'.service
                           = p[1] \o "_" \o p[2])
                      => /\ RowsOf(rows', p[1], p[2]) = found
                         /\ now' >= now ]_vars

C5_Witness ==
    /\ last.op = "get"
    /\ last.record # None
    /\ now >= last.record[1].expires_at
    /\ last.record[1].refresh_token = None
    /\ last.token = None
    /\ last.record[1] \in rows

\* C6: after revoke(user_id, service) returned true, every getValidToken
\* for that pair returns not-found until an exchangeCode for that same
\* pair succeeds.
C6_RevokedStaysAbsent ==
    (last.op = "get" /\ << last.user_id, last.service >> \in revoked)
        => last.token = None

\* C7: revoke never calls the identity provider, and when no record exists
\* under the key it returns false and leaves every record of the store
\* unchanged.
C7_RevokeAbsent ==
    [][ last'.op = "revoke"
          => /\ last'.exchange_calls = 0
             /\ last'.refresh_calls = 0
             /\ issued' = issued
             /\ RowsOf(rows, last'.user_id, last'.service) = {}
                  => /\ ~last'.ok
                     /\ ~last'.raised
                     /\ rows' = rows ]_vars

C7_Witness ==
    /\ last.op = "revoke"
    /\ ~last.ok
    /\ last.record = None
    /\ rows # {}

\* ciphertext c was not produced under key k
NotUnderKey(c, k) ==
    Len(c) <= Len(k) + 1 \/ SubSeq(c, 1, Len(k) + 1) # k \o ":"

\* C8: getValidToken never raises for a refresh or decryption failure: when
\* the refresh-token decryption fails, the provider rejects the refresh, or
\* the access-token decryption fails, it has made at most one refresh
\* attempt and returns not-found.
C8_FailuresAreNotFound ==
    (last.op = "get" /\ last.record # None)
        => LET r == last.record[1]
               expired == now >= r.expires_at
               refresh_undecryptable ==
                   /\ expired
                   /\ r.refresh_token # None
                   /\ NotUnderKey(r.refresh_token[1], key)
               refresh_rejected ==
                   /\ expired
                   /\ last.refresh_calls > 0
                   /\ last.response = None
               access_undecryptable ==
                   /\ ~expired
                   /\ NotUnderKey(r.access_token, key)
           IN  /\ ~last.raised
               /\ last.refresh_calls <= 1
               /\ refresh_undecryptable
                    => last.token = None /\ last.refresh_calls = 0
               /\ refresh_rejected => last.token = None
               /\ access_undecryptable
                    => last.token = None /\ last.refresh_calls = 0

C8_Witness ==
    /\ last.op = "get"
    /\ last.record # None
    /\ now >= last.record[1].expires_at
    /\ last.refresh_calls = 1
    /\ last.response = None
    /\ last.token = None

\* C9 as stated: for every user_id, every service of the registry and every
\* value of the state argument, the URL requests exactly the registry's
\* scopes of the service and carries a state that exchangeCode decodes to
\* the same (user_id, service).
C9_AnyStateDecodes ==
    (last.op = "url" /\ last.service \in DOMAIN GOOGLE_SCOPES)
        => /\ ~last.raised
           /\ last.url # None
           /\ last.url[1].scope = GOOGLE_SCOPES[last.service]
           /\ parse_state(last.url[1].state)
                = [ok |-> TRUE, user_id |-> last.user_id,
                   service |-> last.service]

\* C9 amended: the URL always requests exactly the registry's scopes; when
\* no state (or an empty one) is supplied it carries a generated state that
\* exchangeCode decodes to the same (user_id, service); a supplied
\* non-empty state is carried unchanged.
C9_GeneratedStateDecodes ==
    (last.op = "url" /\ last.service \in DOMAIN GOOGLE_SCOPES)
        => /\ ~last.raised
           /\ last.url # None
           /\ last.url[1].scope = GOOGLE_SCOPES[last.service]
           /\ IF last.state = None \/ last.state = Some(<<>>)
              THEN parse_state(last.url[1].state)
                     = [ok |-> TRUE, user_id |-> last.user_id,
                        service |-> last.service]
              ELSE last.url[1].state = last.state[1]

C9_Witness ==
    /\ last.op = "url"
    /\ last.user_id = "a_b"
    /\ last.service = "gmail"
    /\ last.state = None
    /\ last.url # None
    /\ Len(last.url[1].scope) = 3

\* a state that does not decode, lacks user_id or service, or names a
\* service outside the registry
IsMalformed(state) ==
    \/ state \in MalformedStates
    \/ \E p \in StatePairs : /\ p[2] \notin DOMAIN GOOGLE_SCOPES
                        /\ state = << "{", "\"user_id\"", ":", Quote(p[1]), ",",
                                      "\"service\"", ":", Quote(p[2]), "}" >>

\* C10: exchangeCode with a malformed state is rejected with an error and
\* no partial processing: no provider call is made and the store is
\* unchanged.
C10_MalformedStateRejected ==
    [][ (last'.op = "exchange" /\ IsMalformed(last'.state[1]))
          => /\ last'.raised
             /\ ~last'.ok
             /\ last'.info = None
             /\ last'.exchange_calls = 0
             /\ issued' = issued
             /\ rows' = rows ]_vars

C10_Witness ==
    /\ last.op = "exchange"
    /\ last.state = Some(<< "{", "\"service\"", ":", "\"gmail\"", "}" >>)
    /\ last.raised
    /\ last.exchange_calls = 0
    /\ rows # {}

\* C11: when the provider rejects the code exchange, exchangeCode raises to
\* its caller instead of returning a token summary, and the store is left
\* exactly as it was: no record is created and an existing record keeps its
\* tokens, expiry and scopes.
C11_RejectedExchangeRaises ==
    [][ (/\ last'.op = "exchange"
         /\ last'.exchange_calls = 1
         /\ last'.response = None)
          => /\ last'.raised
             /\ ~last'.ok
             /\ last'.info = None
             /\ issued' = issued
             /\ rows' = rows ]_vars

C11_Witness ==
    /\ last.op = "exchange"
    /\ last.exchange_calls = 1
    /\ last.response = None
    /\ last.raised
    /\ RowsOf(rows, last.user_id, last.service) # {}

\* C12: getValidToken never returns the access token of a record whose
\* expires_at is at or before the current time at the expiry check (now ==
\* expires_at counts as expired): whenever it returns a token, either now <
\* expires_at held at the check or a refresh succeeded within that call and
\* the token returned is the one the refresh issued.
C12_NoExpiredTokenServed ==
    (last.op = "get" /\ last.token # None)
        => /\ last.record # None
           /\ \/ now < last.record[1].expires_at
              \/ /\ last.refresh_calls = 1
                 /\ last.response # None
                 /\ last.token = Some(last.response[1].token)
                 /\ ~Encrypts(last.record[1].access_token, key,
                              last.token[1])

C12_Witness ==
    /\ last.op = "get"
    /\ last.record # None
    /\ now = last.record[1].expires_at
    /\ last.token # None
    /\ last.response # None

\* the boundary instant without a renewal path: nothing is returned
C12_WitnessBoundaryAbsent ==
    /\ last.op = "get"
    /\ last.record # None
    /\ now = last.record[1].expires_at
    /\ last.record[1].refresh_token = None
    /\ last.token = None

\* the plaintext secrets the provider has issued so far
AccessSecrets == { "AT" \o ToString(n) : n \in 1..issued }
RefreshSecrets == { "RT" \o ToString(n) : n \in 1..issued }

\* C13: the access_token and refresh_token fields of every record hold
\* ciphertext produced by the Crypto Vault, never the provider's plaintext;
\* the only plaintext secret an operation returns is getValidToken's access
\* token: the TokenInfo of exchangeCode and the listing of listTokens have
\* no token field and no secret among their values, and no operation
\* returns a refresh token.
C13_SecretsStayEncrypted ==
    /\ \A r \in rows :
         /\ r.access_token \notin AccessSecrets \cup RefreshSecrets
         /\ \E k \in Keys, p \in AccessSecrets : Encrypts(r.access_token, k, p)
         /\ r.refresh_token # None
              => /\ r.refresh_token[1] \notin AccessSecrets \cup RefreshSecrets
                 /\ \E k \in Keys, p \in RefreshSecrets :
                        Encrypts(r.refresh_token[1], k, p)
    /\ last.token # None
         => last.op = "get" /\ last.token[1] \in AccessSecrets
    /\ last.info # None
         => /\ DOMAIN last.info[1] = { "user_id", "service", "scopes",
                                       "expires_at", "has_refresh_token" }
            /\ \A v \in { last.info[1].user_id, last.info[1].service }
                        \cup { last.info[1].scopes[i] :
                                 i \in 1..Len(last.info[1].scopes) } :
                  v \notin AccessSecrets \cup RefreshSecrets
    /\ last.listing # None
         => /\ DOMAIN last.listing[1] = { "user_id", "authorized_services",
                                          "total_services" }
            /\ last.listing[1].user_id \notin AccessSecrets \cup RefreshSecrets
            /\ \A e \in last.listing[1].authorized_services :
                  /\ DOMAIN e = { "service", "expires_at", "has_refresh_token",
                                  "created_at", "updated_at" }
                  /\ e.service \notin AccessSecrets \cup RefreshSecrets

C13_Witness ==
    /\ last.op = "list"
    /\ last.listing # None
    /\ \E e \in last.listing[1].authorized_services : e.has_refresh_token
    /\ \E r \in rows : r.refresh_token # None /\ r.user_id = last.user_id

\* C14: every successful exchangeCode leaves the record with a refresh
\* token present; in particular a re-authorization never leaves a record
\* that had a refresh token without one.
C14_ExchangeInstallsRefreshToken ==
    (last.op = "exchange" /\ last.ok)
        => /\ RowsOf(rows, last.user_id, last.service) # {}
           /\ \A r \in RowsOf(rows, last.user_id, last.service) :
                r.refresh_token # None

\* C15: for every non-empty string s and every key k, decrypting under k
\* what encrypt returned for s under k gives s; decrypting it under any
\* other key fails and returns no string; encrypt and decrypt both map
\* the empty string to the empty string.
C15_EncryptDecryptRoundTrip ==
    /\ (vault.op = "encrypt" /\ vault.data = "")
         => vault.ok /\ vault.value = ""
    /\ (vault.op = "decrypt" /\ vault.data = "")
         => vault.ok /\ vault.value = ""
    /\ (vault.op = "decrypt" /\ vault.source # None
                             /\ vault.source[1].data # "")
         => IF vault.key = vault.source[1].key
            THEN vault.ok /\ vault.value = vault.source[1].data
            ELSE ~vault.ok

C15_Witness ==
    /\ vault.op = "decrypt"
    /\ vault.source # None
    /\ vault.source[1].data = "k1:AT"
    /\ vault.source[1].key = "k2"
    /\ vault.key = "k1"
    /\ ~vault.ok

\* the round trip under the same key
C15_WitnessSameKey ==
    /\ vault.op = "decrypt"
    /\ vault.source # None
    /\ vault.source[1].data = "k1:AT"
    /\ vault.key = vault.source[1].key
    /\ vault.value = "k1:AT"

\* the request handlers that ran exchangeCode for the same pair, both to
\* the end, each with a token response of its own from the provider
BothExchanged(h1, h2) ==
    /\ h1 # h2
    /\ handlers[h1].op = "exchange" /\ handlers[h2].op = "exchange"
    /\ handlers[h1].pc = "done" /\ handlers[h2].pc = "done"
    /\ handlers[h1].response # None /\ handlers[h2].response # None
    /\ handlers[h1].user_id = handlers[h2].user_id
    /\ handlers[h1].service = handlers[h2].service

\* C16: when two request handlers run exchangeCode for the same pair with
\* two distinct valid codes, under every interleaving of their lookup,
\* insert/update and commit steps both calls complete successfully and the
\* store ends with one record, holding the tokens of one of the two.
C16_ConcurrentExchangesBothSucceed ==
    \A h1, h2 \in Handlers :
        BothExchanged(h1, h2)
            => /\ handlers[h1].ok /\ ~handlers[h1].raised
               /\ handlers[h2].ok /\ ~handlers[h2].raised
               /\ LET found == RowsOf(rows, handlers[h1].user_id,
                                      handlers[h1].service)
                  IN  /\ Cardinality(found) = 1
                      /\ \A r \in found :
                           \E h \in {h1, h2} :
                              Encrypts(r.access_token, key,
                                       handlers[h].response[1].token)

\* C17: under any interleaving of concurrent exchangeCode, getValidToken
\* (with its refresh) and revoke calls on any keys, the store holds at
\* most one record per (user_id, service).
C17_AtMostOneRecordPerPair ==
    \A r1, r2 \in rows :
        (r1.user_id = r2.user_id /\ r1.service = r2.service) => r1 = r2

\* two handlers were both about to insert the first row of the pair
C17_Witness ==
    \E h1, h2 \in Handlers :
        /\ BothExchanged(h1, h2)
        /\ handlers[h1].ok
        /\ handlers[h2].raised
        /\ Cardinality(RowsOf(rows, handlers[h1].user_id,
                               handlers[h1].service)) = 1

\* the records stored for a pair
RecordsFor(table, user_id, service) ==
    { r \in table : r.user_id = user_id /\ r.service = service }

\* C18: a record for (user_id, service) comes into existence only through
\* a successful exchangeCode for that pair and is removed only through a
\* successful revoke for that pair; getValidToken, its refresh and
\* listTokens neither create nor delete a record.
C18_LifecycleTransitions ==
    [][ \A u \in UserIds, sv \in ServiceNames :
          LET before == RecordsFor(rows, u, sv)
              after == RecordsFor(rows', u, sv)
          IN  /\ (before = {} /\ after # {})
                   => /\ last'.op = "exchange" /\ last'.ok
                      /\ last'.user_id = u /\ last'.service = sv
              /\ (before # {} /\ after = {})
                   => /\ last'.op = "revoke" /\ last'.ok
                      /\ last'.user_id = u /\ last'.service = sv
              /\ last'.op \in {"get", "list", "url"}
                   => (after = {}) = (before = {}) ]_vars

\* the list a scopes column decodes to
StoredScopes(r) == json_loads(r.scopes).value

\* C19 as stated: the scopes field of each record equals the scopes the
\* provider actually granted at the most recent issuance or refresh for
\* the key, not the set that was requested.
C19_ScopesAreGranted ==
    (/\ last.op \in {"exchange", "get"}
     /\ last.response # None
     /\ ~last.raised)
        => \A r \in RowsOf(rows, last.user_id, last.service) :
              /\ json_loads(r.scopes).ok
              /\ StoredScopes(r) = last.response[1].scopes

\* C19 amended: the scopes field of each record is the registry's scope
\* list of the record's service, the set that was requested, whatever the
\* provider granted at the last issuance; a refresh leaves it as it is.
C19_ScopesAreRequested ==
    /\ \A r \in rows :
         /\ r.service \in DOMAIN GOOGLE_SCOPES
         /\ json_loads(r.scopes).ok
         /\ json_loads(r.scopes).kind = "list"
         /\ StoredScopes(r) = GOOGLE_SCOPES[r.service]
    /\ (last.op = "get" /\ last.response # None)
         => \A r \in RowsOf(rows, last.user_id, last.service) :
               r.scopes = last.record[1].scopes

\* a re-authorization whose grant is wider than the request
C19_Witness ==
    /\ last.op = "exchange"
    /\ last.ok
    /\ last.record # None
    /\ last.response[1].scopes # GOOGLE_SCOPES[last.service]
    /\ \E r \in RowsOf(rows, last.user_id, last.service) :
          StoredScopes(r) # last.response[1].scopes

\* C20: after every successful exchangeCode for a state naming service s,
\* the stored record's scopes and the returned TokenInfo's scopes both
\* equal the registry's scope list for s, whatever scopes the provider's
\* response reports.
C20_ExchangeStoresRegistryScopes ==
    (last.op = "exchange" /\ last.ok)
        => /\ last.info # None
           /\ last.info[1].scopes = GOOGLE_SCOPES[last.service]
           /\ RowsOf(rows, last.user_id, last.service) # {}
           /\ \A r \in RowsOf(rows, last.user_id, last.service) :
                 json_loads(r.scopes) =
                     [ok |-> TRUE, kind |-> "list",
                      value |-> GOOGLE_SCOPES[last.service]]

\* a first authorization whose grant is wider than the request
C20_Witness ==
    /\ last.op = "exchange"
    /\ last.ok
    /\ last.record = None
    /\ Len(last.response[1].scopes) > Len(GOOGLE_SCOPES[last.service])
    /\ Len(last.info[1].scopes) = 3

\* C21: a successful refresh overwrites the record's access token with the
\* ciphertext of the provider's new access token, sets expires_at to the
\* refresh time plus one hour and updated_at to the refresh time, and
\* leaves id, user_id, service, scopes, created_at and the stored refresh
\* token unchanged.
C21_RefreshFrame ==
    (last.op = "get" /\ last.response # None)
        => LET before == last.record[1]
               found == RowsOf(rows, last.user_id, last.service)
           IN  /\ Cardinality(found) = 1
               /\ \A r \in found :
                     /\ Encrypts(r.access_token, key, last.response[1].token)
                     /\ r.expires_at = now + 3600
                     /\ r.updated_at = now
                     /\ r.id = before.id
                     /\ r.user_id = before.user_id
                     /\ r.service = before.service
                     /\ r.scopes = before.scopes
                     /\ r.created_at = before.created_at
                     /\ r.refresh_token = before.refresh_token
                     /\ r.token_type = before.token_type

\* a refresh, later than the row's creation, whose response reissues a
\* refresh token
C21_Witness ==
    /\ last.op = "get"
    /\ last.response # None
    /\ last.response[1].refresh_token # None
    /\ last.record[1].created_at < now
    /\ \E r \in RowsOf(rows, last.user_id, last.service) :
          r.updated_at = now /\ r.access_token # last.record[1].access_token

\* C22: when the provider reissues a refresh token in its response to a
\* refresh, the record's stored refresh token is replaced by the
\* ciphertext of the reissued one.
C22_ReissuedRefreshTokenStored ==
    (/\ last.op = "get"
     /\ last.response # None
     /\ last.response[1].refresh_token # None)
        => \A r \in RowsOf(rows, last.user_id, last.service) :
              /\ r.refresh_token # None
              /\ Encrypts(r.refresh_token[1], key,
                          last.response[1].refresh_token[1])

\* C24: a refresh that fails, by a refresh-token decryption error or by
\* the provider's rejection, makes getValidToken return not-found without
\* raising and leaves the stored record as it was, not deleted; a
\* getValidToken on a record that is expired and whose refresh token
\* decrypts therefore calls the provider again, whatever happened before.
C24_FailedRefreshKeepsRecord ==
    [][ (/\ last'.op = "get"
         /\ last'.record # None
         /\ now >= last'.record[1].expires_at
         /\ last'.record[1].refresh_token # None)
          => /\ last'.response = None
                  => /\ ~last'.raised
                     /\ last'.token = None
                     /\ issued' = issued
                     /\ rows' = rows
                     /\ last'.record[1] \in rows'
             /\ ~NotUnderKey(last'.record[1].refresh_token[1], key)
                  => last'.refresh_calls = 1 ]_vars

\* a refresh the provider rejected, of a row that was written earlier
C24_Witness ==
    /\ last.op = "get"
    /\ last.record # None
    /\ last.record[1] \in rows
    /\ last.response = None
    /\ last.refresh_calls = 1
    /\ issued < MaxIssued
    /\ last.record[1].updated_at < now

\* C23: every stored record has expires_at set; after a successful
\* exchangeCode it equals the provider's reported expiry when the provider
\* reports one and the time of the exchange plus 3600 seconds when it does
\* not, and the expires_at of the returned TokenInfo equals the stored
\* value.
C23_ExpiryFromProvider ==
    (last.op = "exchange" /\ last.ok)
        => LET found == RowsOf(rows, last.user_id, last.service)
               reported == last.response[1].expiry
           IN  /\ found # {}
               /\ \A r \in found :
                     /\ r.expires_at = IF reported = None THEN now + 3600
                                       ELSE reported[1]
                     /\ last.info[1].expires_at = r.expires_at

\* C25: the stored access token and the stored refresh token of a record
\* belong to the same grant: when the stored access token is the one an
\* exchange obtained, the stored refresh token is the one of that
\* exchange, and when it is the one a refresh obtained, the stored refresh
\* token is the one that refresh presented to the provider; also after a
\* getValidToken whose refresh interleaves with a re-authorizing
\* exchangeCode on the key.
C25_TokensOfOneGrant ==
    \A h \in Handlers :
        LET me == handlers[h]
        IN  (me.response # None /\ me.pc \in {"committed", "done"})
              => \A r \in RowsOf(rows, me.user_id, me.service) :
                    Encrypts(r.access_token, key, me.response[1].token)
                      => IF me.op = "get"
                         THEN r.refresh_token = me.refresh_with
                         ELSE /\ r.refresh_token # None
                              /\ Encrypts(r.refresh_token[1], key,
                                          me.response[1].refresh_token[1])

\* C26: a revoke is not undone by a getValidToken that was in flight: when
\* a getValidToken found the record of a key and refreshed it, and a
\* revoke of the key has committed with no exchangeCode for the key
\* succeeding since (the revoke then committed after that lookup), then
\* once the getValidToken has finished the store holds no record for the
\* key.
C26_RevokeNotUndone ==
    \A hg \in Handlers :
        LET me == handlers[hg]
        IN  ( /\ me.op = "get" /\ me.pc = "done" /\ me.response # None
              /\ << me.user_id, me.service >> \in revoked )
              => RowsOf(rows, me.user_id, me.service) = {}

\* the revoke has finished too, and the refresh was accepted by the
\* provider but its commit, or its reload, found the row gone
C26_Witness ==
    \E hg, hr \in Handlers :
        /\ handlers[hg].op = "get" /\ handlers[hg].pc = "done"
        /\ handlers[hg].response # None /\ handlers[hg].token = None
        /\ handlers[hr].op = "revoke" /\ handlers[hr].pc = "done"
        /\ handlers[hr].ok
        /\ handlers[hg].user_id = handlers[hr].user_id
        /\ handlers[hg].service = handlers[hr].service
        /\ << handlers[hg].user_id, handlers[hg].service >> \in revoked
        /\ RowsOf(rows, handlers[hg].user_id, handlers[hg].service) = {}

====
